---------------------------- MODULE Spec2Model ----------------------------
(***************************************************************************)
(* Transformer encoder block of src/transformer.cpp: multi-head            *)
(* self-attention, position-wise feed-forward network, layer               *)
(* normalization, and the encoder block that composes them.                *)
(*                                                                         *)
(* Scalars are modelled as a small floating format: a finite value is an   *)
(* integer count of 1/Scale units with magnitude at most FMax, and the     *)
(* IEEE-754 specials +inf, -inf and NaN are kept with their arithmetic     *)
(* (inf - inf, 0 * inf, inf / inf and 0 / 0 are NaN; x / inf is 0).        *)
(* A matrix is a record [r, c, a]: r rows, c columns, entries a[i][j].     *)
(***************************************************************************)
EXTENDS Integers, Sequences, FiniteSets, TLC

(***************************************************************************)
(* Bounds of the model.                                                    *)
(***************************************************************************)
Scale == 1000
FMax == 40000
MaxDim == 2
MaxDff == 1
MaxSeqLen == 2

\* the seeds std::random_device may deliver, and the patterns of the inputs
Seeds == {0, 1}
Patterns == {0, 1}

(***************************************************************************)
(* Scalar (Scalar = float in main) values and arithmetic.                  *)
(***************************************************************************)
Fin(n) == [k |-> "fin", v |-> n]
PInf == [k |-> "inf", v |-> 1]
NInf == [k |-> "inf", v |-> -1]
NaN == [k |-> "nan", v |-> 0]
Zero == Fin(0)
One == Fin(Scale)

IsNaN(a) == a.k = "nan"
IsInf(a) == a.k = "inf"
IsFin(a) == a.k = "fin"

\* sign of a non-NaN value: -1, 0 or 1
Sgn(a) == IF a.v > 0 THEN 1 ELSE IF a.v < 0 THEN -1 ELSE 0
SignedInf(s) == IF s > 0 THEN PInf ELSE NInf

\* a finite result, overflowing to an infinity beyond the largest finite value
Round(n) == IF n > FMax THEN PInf ELSE IF n < -FMax THEN NInf ELSE Fin(n)

Abs(n) == IF n < 0 THEN -n ELSE n

\* n / d rounded to the nearest integer (d > 0), magnitude first
RDivPos(n, d) == (2 * n + d) \div (2 * d)
RDiv(n, d) ==
    LET q == RDivPos(Abs(n), Abs(d))
    IN IF (n < 0) = (d < 0) THEN q ELSE -q

FAdd(a, b) ==
    IF IsNaN(a) \/ IsNaN(b) THEN NaN
    ELSE IF IsInf(a) /\ IsInf(b) THEN (IF a.v = b.v THEN a ELSE NaN)
    ELSE IF IsInf(a) THEN a
    ELSE IF IsInf(b) THEN b
    ELSE Round(a.v + b.v)

FNeg(a) == IF IsNaN(a) THEN NaN ELSE [k |-> a.k, v |-> -a.v]

FSub(a, b) == FAdd(a, FNeg(b))

FMul(a, b) ==
    IF IsNaN(a) \/ IsNaN(b) THEN NaN
    ELSE IF IsInf(a) \/ IsInf(b)
         THEN (IF Sgn(a) * Sgn(b) = 0 THEN NaN ELSE SignedInf(Sgn(a) * Sgn(b)))
    ELSE Round(RDiv(a.v * b.v, Scale))

FDiv(a, b) ==
    IF IsNaN(a) \/ IsNaN(b) THEN NaN
    ELSE IF IsInf(a) /\ IsInf(b) THEN NaN
    ELSE IF IsInf(a) THEN SignedInf(IF b.v < 0 THEN -a.v ELSE a.v)
    ELSE IF IsInf(b) THEN Zero
    ELSE IF b.v = 0 THEN (IF a.v = 0 THEN NaN ELSE SignedInf(a.v))
    ELSE Round(RDiv(a.v * Scale, b.v))

\* a < b as the hardware compares: false when either side is NaN
FLess(a, b) ==
    IF IsNaN(a) \/ IsNaN(b) THEN FALSE
    ELSE IF IsInf(a) THEN a.v < 0 /\ ~(IsInf(b) /\ b.v < 0)
    ELSE IF IsInf(b) THEN b.v > 0
    ELSE a.v < b.v

\* integer square root of n >= 0 by Newton's iteration from above
RECURSIVE NewtonSqrt(_, _)
NewtonSqrt(n, g) ==
    LET h == (g + n \div g) \div 2
    IN IF h >= g THEN g ELSE NewtonSqrt(n, h)
ISqrt(n) == IF n = 0 THEN 0 ELSE NewtonSqrt(n, n)

\* std::sqrt
FSqrt(a) ==
    IF IsNaN(a) THEN NaN
    ELSE IF IsInf(a) THEN (IF a.v > 0 THEN PInf ELSE NaN)
    ELSE IF a.v < 0 THEN NaN
    ELSE Fin(ISqrt(a.v * Scale))

\* e^(x / Scale) in units, 0 <= x <= Scale: the power series until a term vanishes
RECURSIVE ExpSeries(_, _, _, _)
ExpSeries(x, term, k, acc) ==
    IF term = 0 THEN acc
    ELSE ExpSeries(x, RDiv(term * x, k * Scale), k + 1, acc + term)
\* e^(x / Scale) in units for x >= 0, halving the argument until the series applies
RECURSIVE ExpPos(_)
ExpPos(x) ==
    IF x <= Scale THEN ExpSeries(x, Scale, 1, 0)
    ELSE LET e == ExpPos(x \div 2) IN RDiv(e * e, Scale)

\* arguments beyond which e^x overflows to +inf or underflows to 0
ExpOverflowArg == 4 * Scale
ExpUnderflowArg == 7 * Scale

\* std::exp
FExp(a) ==
    IF IsNaN(a) THEN NaN
    ELSE IF IsInf(a) THEN (IF a.v > 0 THEN PInf ELSE Zero)
    ELSE IF a.v > ExpOverflowArg THEN PInf
    ELSE IF a.v < -ExpUnderflowArg THEN Zero
    ELSE IF a.v >= 0 THEN Round(ExpPos(a.v))
    ELSE Round(RDiv(Scale * Scale, ExpPos(-a.v)))

(***************************************************************************)
(* Dense matrices (Eigen::Matrix<Scalar, Dynamic, Dynamic>) and vectors    *)
(* (a vector of length n is kept as its entries, a function on 1..n).      *)
(***************************************************************************)
\* a function on 1..n as the tuple of its values
Tup(f) == f \o << >>

\* the value of an object that does not exist (yet): a 0 x 0 matrix
Empty == [r |-> 0, c |-> 0, a |-> << >>]

\* left-to-right sum of the first n entries of s
RECURSIVE FSum(_, _)
FSum(s, n) == IF n = 0 THEN Zero ELSE FAdd(FSum(s, n - 1), s[n])

\* A * B (A.c = B.r)
MatMul(A, B) ==
    [r |-> A.r, c |-> B.c,
     a |-> Tup([i \in 1..A.r |-> Tup([j \in 1..B.c |->
              FSum([k \in 1..A.c |-> FMul(A.a[i][k], B.a[k][j])], A.c)])])]

Transpose(A) ==
    [r |-> A.c, c |-> A.r, a |-> Tup([i \in 1..A.c |-> Tup([j \in 1..A.r |-> A.a[j][i]])])]

\* A + B (equal shapes)
MatAdd(A, B) ==
    [r |-> A.r, c |-> A.c,
     a |-> Tup([i \in 1..A.r |-> Tup([j \in 1..A.c |-> FAdd(A.a[i][j], B.a[i][j])])])]

\* A / s, every entry divided by the scalar s
MatScaleDiv(A, s) ==
    [r |-> A.r, c |-> A.c,
     a |-> Tup([i \in 1..A.r |-> Tup([j \in 1..A.c |-> FDiv(A.a[i][j], s)])])]

\* A.block(0, c0, A.r, w): the w columns from 0-based column c0
Block(A, c0, w) ==
    [r |-> A.r, c |-> w, a |-> Tup([i \in 1..A.r |-> Tup([j \in 1..w |-> A.a[i][c0 + j]])])]

\* A.rowwise().sum()
RowSum(A) == [i \in 1..A.r |-> FSum(A.a[i], A.c)]

\* A.rowwise().mean(): the row sum divided by the number of columns
RowMean(A) == [i \in 1..A.r |-> FDiv(RowSum(A)[i], Fin(A.c * Scale))]

SameShape(A, B) == A.r = B.r /\ A.c = B.c

\* a vector of n equal entries (setZero, setOnes)
ConstVec(n, v) == [j \in 1..n |-> v]

(***************************************************************************)
(* util::uniform_init.  The engine is a function-local static seeded once  *)
(* from std::random_device; it is modelled as a full-period congruential   *)
(* generator on 0..15 whose seed is chosen nondeterministically.  Each     *)
(* entry, in row-major order, advances the engine once and maps its state  *)
(* into [-init_range, init_range].                                         *)
(***************************************************************************)
NextRng(s) == (5 * s + 3) % 16

RECURSIVE RngAfter(_, _)
RngAfter(s, k) == IF k = 0 THEN s ELSE NextRng(RngAfter(s, k - 1))

\* T init_range = T(0.1)
init_range == Scale \div 10

\* dist(rng) for the engine state s reached by the draw
Dist(s, range) == Fin(((2 * range * s) \div 15) - range)

\* the matrix uniform_init leaves in an r x c matrix, from engine state s0
UniformMatrix(r, c, s0, range) ==
    [r |-> r, c |-> c,
     a |-> Tup([i \in 1..r |-> Tup([j \in 1..c |->
              Dist(RngAfter(s0, (i - 1) * c + j), range)])])]

\* the engine state uniform_init leaves behind
UniformRng(r, c, s0) == RngAfter(s0, r * c)

(***************************************************************************)
(* util::scaled_dot_product_attention.  A mask argument is a pointer: a    *)
(* record [present, m], present = FALSE for nullptr.                       *)
(***************************************************************************)
NoMask == [present |-> FALSE, m |-> Empty]
SomeMask(m) == [present |-> TRUE, m |-> m]

\* scores = Q * K^T / sqrt(d_k), d_k = Q.cols()
Scores(Qh, Kh) == MatScaleDiv(MatMul(Qh, Transpose(Kh)), FSqrt(Fin(Qh.c * Scale)))

\* MaskedScores with the mask read as a keep-mask: zero entries are masked out
MaskedScores_KeepMask(scores, msk) ==
    IF msk.present
    THEN [r |-> scores.r, c |-> scores.c,
          a |-> Tup([i \in 1..scores.r |-> Tup([j \in 1..scores.c |->
                   IF msk.m.a[i][j] = Zero THEN NInf ELSE scores.a[i][j]])])]
    ELSE scores

\* if (mask) scores += *mask
MaskedScores(scores, msk) == IF msk.present THEN MatAdd(scores, msk.m) ELSE scores

\* the Eigen size check of scores += *mask
MaskFits(scores, msk) == msk.present => SameShape(scores, msk.m)

\* exp_scores = scores.unaryExpr(exp)
ExpScores(scores) ==
    [r |-> scores.r, c |-> scores.c,
     a |-> Tup([i \in 1..scores.r |-> Tup([j \in 1..scores.c |-> FExp(scores.a[i][j])])])]

\* attn = exp_scores.array().colwise() / exp_scores.rowwise().sum().array()
Softmax(scores) ==
    LET e == ExpScores(scores)
        sum_exp == RowSum(e)
    IN [r |-> e.r, c |-> e.c,
        a |-> Tup([i \in 1..e.r |-> Tup([j \in 1..e.c |-> FDiv(e.a[i][j], sum_exp[i])])])]

\* the attention weights of one head
AttnWeights(Qh, Kh, msk) == Softmax(MaskedScores(Scores(Qh, Kh), msk))

\* return attn * V
scaled_dot_product_attention(Qh, Kh, Vh, msk) == MatMul(AttnWeights(Qh, Kh, msk), Vh)

(***************************************************************************)
(* FeedForward::operator().  The source writes the bias broadcast as       *)
(* x * W1_.rowwise() + b1_.transpose(); it is modelled as what it denotes, *)
(* the product with the bias row added to every row of it.                 *)
(***************************************************************************)
\* AddRowVec adding the bias to the first row only
AddRowVec_FirstRow(A, b) ==
    [r |-> A.r, c |-> A.c,
     a |-> Tup([i \in 1..A.r |-> Tup([j \in 1..A.c |->
              IF i = 1 THEN FAdd(A.a[i][j], b[j]) ELSE A.a[i][j]])])]

AddRowVec(A, b) ==
    [r |-> A.r, c |-> A.c,
     a |-> Tup([i \in 1..A.r |-> Tup([j \in 1..A.c |-> FAdd(A.a[i][j], b[j])])])]

\* std::max(v, Scalar(0))
ReLU(v) == IF FLess(v, Zero) THEN Zero ELSE v

MatReLU(A) ==
    [r |-> A.r, c |-> A.c, a |-> Tup([i \in 1..A.r |-> Tup([j \in 1..A.c |-> ReLU(A.a[i][j])])])]

Hidden(ff, xin) == MatReLU(AddRowVec(MatMul(xin, ff.W1_), ff.b1_))

\* FeedForwardApply returning the hidden layer, the second product left out
FeedForwardApply_Hidden(ff, xin) == Hidden(ff, xin)

\* FeedForwardApply adding its input to its result
FeedForwardApply_Residual(ff, xin) ==
    MatAdd(xin, AddRowVec(MatMul(Hidden(ff, xin), ff.W2_), ff.b2_))

FeedForwardApply(ff, xin) == AddRowVec(MatMul(Hidden(ff, xin), ff.W2_), ff.b2_)

(***************************************************************************)
(* LayerNorm::operator()                                                   *)
(***************************************************************************)
\* Scalar eps = 1e-5, rounded up to the smallest positive value of the format
eps_default == IF Scale >= 100000 THEN Scale \div 100000 ELSE 1

\* Centered leaving the mean in
Centered_Uncentered(A) == A

\* x.rowwise() - mean.transpose(): each row less its own mean
Centered(A) ==
    LET mean == RowMean(A)
    IN [r |-> A.r, c |-> A.c,
        a |-> Tup([i \in 1..A.r |-> Tup([j \in 1..A.c |-> FSub(A.a[i][j], mean[i])])])]

\* var = centered.array().square().rowwise().mean()
RowVar(A) ==
    LET d == Centered(A)
        sq == [r |-> d.r, c |-> d.c,
               a |-> Tup([i \in 1..d.r |-> Tup([j \in 1..d.c |-> FMul(d.a[i][j], d.a[i][j])])])]
    IN RowMean(sq)

\* norm = centered.array().colwise() / (var.array() + eps_).sqrt()
Normalized(ln, A) ==
    LET d == Centered(A)
        var == RowVar(A)
    IN [r |-> A.r, c |-> A.c,
        a |-> Tup([i \in 1..A.r |-> Tup([j \in 1..A.c |->
                 FDiv(d.a[i][j], FSqrt(FAdd(var[i], Fin(ln.eps_))))])])]

\* norm.array().rowwise() * gamma_ + beta_
LayerNormApply(ln, A) ==
    LET n == Normalized(ln, A)
    IN [r |-> A.r, c |-> A.c,
        a |-> Tup([i \in 1..A.r |-> Tup([j \in 1..A.c |->
                 FAdd(FMul(n.a[i][j], ln.gamma_[j]), ln.beta_[j])])])]

(***************************************************************************)
(* MultiHeadAttention::operator(): the concatenation of the head outputs.  *)
(* concat is allocated [seq_len, d_model_] and head h is assigned to its   *)
(* d_k_ columns from h * d_k_; num_heads_ * d_k_ = d_model_ in every       *)
(* constructed instance, so every column is assigned.                      *)
(***************************************************************************)
\* ConcatHeads laying the heads out in reverse order
ConcatHeads_Reversed(outs, seq_len, d_model, d_k) ==
    [r |-> seq_len, c |-> d_model,
     a |-> Tup([i \in 1..seq_len |-> Tup([j \in 1..d_model |->
              outs[(d_model \div d_k) - ((j - 1) \div d_k)].a[i][((j - 1) % d_k) + 1]])])]

ConcatHeads(outs, seq_len, d_model, d_k) ==
    [r |-> seq_len, c |-> d_model,
     a |-> Tup([i \in 1..seq_len |-> Tup([j \in 1..d_model |->
              outs[((j - 1) \div d_k) + 1].a[i][((j - 1) % d_k) + 1]])])]

\* the slices of one projection: head n (from 1) owns the d_k columns from
\* (n - 1) * d_k
HeadSlices(M, num_heads, d_k) == [n \in 1..num_heads |-> Block(M, (n - 1) * d_k, d_k)]

\* MultiHeadAttention::operator() as a function of the instance, x and mask
MultiHeadAttentionApply(mha, xin, msk) ==
    LET Qs == HeadSlices(MatMul(xin, mha.W_Q_), mha.num_heads_, mha.d_k_)
        Ks == HeadSlices(MatMul(xin, mha.W_K_), mha.num_heads_, mha.d_k_)
        Vs == HeadSlices(MatMul(xin, mha.W_V_), mha.num_heads_, mha.d_v_)
        outs == [n \in 1..mha.num_heads_ |->
                    scaled_dot_product_attention(Qs[n], Ks[n], Vs[n], msk)]
    IN MatMul(ConcatHeads(outs, xin.r, mha.d_model_, mha.d_k_), mha.W_O_)

(***************************************************************************)
(* The caller's inputs.                                                    *)
(***************************************************************************)
\* an r x c input whose entries run over -2, 0, 2 in a pattern set by p
InputMatrix(r, c, p) ==
    [r |-> r, c |-> c,
     a |-> Tup([i \in 1..r |-> Tup([j \in 1..c |-> Fin((((i * p + j) % 3) - 1) * 2 * Scale)])])]

Inputs ==
    {InputMatrix(r, c, p) : r \in 1..MaxSeqLen, c \in 0..MaxDim, p \in Patterns}

MaskKinds == {"zero", "causal", "full"}

\* zero: nothing masked; causal: +inf above the diagonal, as main builds it;
\* full: +inf everywhere
MaskMatrix(r, c, kind) ==
    [r |-> r, c |-> c,
     a |-> Tup([i \in 1..r |-> Tup([j \in 1..c |->
              IF kind = "full" \/ (kind = "causal" /\ j > i) THEN PInf ELSE Zero])])]

Masks ==
    {NoMask} \cup
    {SomeMask(MaskMatrix(r, c, kind)) :
        r \in 1..MaxSeqLen, c \in 1..MaxSeqLen, kind \in MaskKinds}

(***************************************************************************)
(* State.                                                                  *)
(***************************************************************************)
VARIABLES
    pc,            \* where the program is
    err,           \* how the process died, "" while it lives
    args,          \* the arguments of the TransformerEncoderBlock constructor
    rng,           \* the static engine of uniform_init: [seeded, s]
    attn_,         \* TransformerEncoderBlock::attn_ (MultiHeadAttention)
    ff_,           \* TransformerEncoderBlock::ff_ (FeedForward)
    ln1_,          \* TransformerEncoderBlock::ln1_ (LayerNorm)
    ln2_,          \* TransformerEncoderBlock::ln2_ (LayerNorm)
    x,             \* the input of the forward call in progress
    mask,          \* its mask pointer
    Q, K, V,       \* the projections
    Q_heads, K_heads, V_heads,   \* the per-head slices
    h,             \* the head the attention loop is at
    attn,          \* the attention weights of the heads attended so far
    head_outputs,  \* their outputs
    concat,        \* the concatenated heads
    attn_out, x1, ff_out, output,   \* the locals of the encoder block's call
    ref,           \* what the caller keeps: an earlier completed call
                   \* [set, x, mask, attn_out, output] and the members of
                   \* an earlier block [built]
    cli,           \* the inspect program (practice/json-parser)
    cs             \* the corpus_stats program (practice/corpus_stats)

component == <<attn_, ff_, ln1_, ln2_>>
mha_locals == <<Q, K, V, Q_heads, K_heads, V_heads, h, attn, head_outputs, concat>>
block_locals == <<attn_out, x1, ff_out, output>>
tools == <<cli, cs>>
vars == <<pc, err, args, rng, component, x, mask, mha_locals, block_locals, ref, tools>>

NoArgs == [d_model |-> 0, num_heads |-> 0, d_ff |-> 0]
NoAttn ==
    [d_model_ |-> 0, num_heads_ |-> 0, d_k_ |-> 0, d_v_ |-> 0,
     W_Q_ |-> Empty, W_K_ |-> Empty, W_V_ |-> Empty, W_O_ |-> Empty]
NoFf == [d_model_ |-> 0, d_ff_ |-> 0, W1_ |-> Empty, W2_ |-> Empty,
         b1_ |-> << >>, b2_ |-> << >>]
NoLn == [d_model_ |-> 0, eps_ |-> 0, gamma_ |-> << >>, beta_ |-> << >>]
NoRef == [set |-> FALSE, x |-> Empty, mask |-> NoMask, attn_out |-> Empty,
          output |-> Empty, built |-> << >>]

\* the other programs, not running
NoCli == [argv |-> << >>]
NoCs == [files |-> << >>]

FreshMhaLocals ==
    /\ Q' = Empty /\ K' = Empty /\ V' = Empty
    /\ Q_heads' = << >> /\ K_heads' = << >> /\ V_heads' = << >>
    /\ h' = 0 /\ attn' = << >> /\ head_outputs' = << >> /\ concat' = Empty

FreshBlockLocals ==
    attn_out' = Empty /\ x1' = Empty /\ ff_out' = Empty /\ output' = Empty

Init ==
    /\ pc = "start" /\ err = "" /\ args = NoArgs
    /\ rng = [seeded |-> FALSE, s |-> 0]
    /\ attn_ = NoAttn /\ ff_ = NoFf /\ ln1_ = NoLn /\ ln2_ = NoLn
    /\ x = Empty /\ mask = NoMask
    /\ Q = Empty /\ K = Empty /\ V = Empty
    /\ Q_heads = << >> /\ K_heads = << >> /\ V_heads = << >>
    /\ h = 0 /\ attn = << >> /\ head_outputs = << >> /\ concat = Empty
    /\ attn_out = Empty /\ x1 = Empty /\ ff_out = Empty /\ output = Empty
    /\ ref = NoRef
    /\ cli = NoCli /\ cs = NoCs

\* the process dies: a failed assertion (abort) or a hardware trap
Die(how) ==
    /\ pc' = "dead" /\ err' = how
    /\ UNCHANGED <<tools, args, rng, component, x, mask, mha_locals, block_locals, ref>>

(***************************************************************************)
(* Construction: TransformerEncoderBlock(d_model, num_heads, d_ff) builds  *)
(* attn_, ff_, ln1_, ln2_ in this order.                                   *)
(***************************************************************************)
Construct(d_model, num_heads, d_ff) ==
    /\ pc = "start"
    /\ args' = [d_model |-> d_model, num_heads |-> num_heads, d_ff |-> d_ff]
    /\ pc' = "mha_init"
    /\ UNCHANGED <<tools, err, rng, component, x, mask, mha_locals, block_locals, ref>>

\* the member initializers of MultiHeadAttention: d_k_(d_model / num_heads).
\* Division by zero is undefined: the process traps, or the quotient is 0.
MhaInitList ==
    /\ pc = "mha_init"
    /\ \/ /\ args.num_heads # 0
          /\ attn_' = [attn_ EXCEPT !.d_model_ = args.d_model,
                                    !.num_heads_ = args.num_heads,
                                    !.d_k_ = args.d_model \div args.num_heads,
                                    !.d_v_ = args.d_model \div args.num_heads]
          /\ pc' = "mha_assert"
          /\ UNCHANGED <<tools, err, args, rng, ff_, ln1_, ln2_, x, mask, mha_locals,
                         block_locals, ref>>
       \/ /\ args.num_heads = 0
          /\ attn_' = [attn_ EXCEPT !.d_model_ = args.d_model,
                                    !.num_heads_ = args.num_heads,
                                    !.d_k_ = 0, !.d_v_ = 0]
          /\ pc' = "mha_assert"
          /\ UNCHANGED <<tools, err, args, rng, ff_, ln1_, ln2_, x, mask, mha_locals,
                         block_locals, ref>>
       \/ /\ args.num_heads = 0
          /\ Die("SIGFPE")

\* d_model % num_heads as the assertion evaluates it; with num_heads = 0 a
\* build that does not trap leaves the dividend
Remainder(d_model, num_heads) ==
    IF num_heads = 0 THEN d_model ELSE d_model % num_heads

\* MhaAssert with the assertion compiled out
MhaAssert_Disabled ==
    /\ pc = "mha_assert"
    /\ pc' = "mha_weights"
    /\ UNCHANGED <<tools, err, args, rng, component, x, mask, mha_locals, block_locals, ref>>

\* assert(d_model % num_heads == 0 && "d_model must be divisible by num_heads")
MhaAssert ==
    /\ pc = "mha_assert"
    /\ \/ /\ Remainder(args.d_model, args.num_heads) = 0
          /\ pc' = "mha_weights"
          /\ UNCHANGED <<tools, err, args, rng, component, x, mask, mha_locals,
                         block_locals, ref>>
       \/ /\ Remainder(args.d_model, args.num_heads) # 0
          /\ Die("assert: d_model must be divisible by num_heads")
       \/ /\ args.num_heads = 0
          /\ Die("SIGFPE")

\* the four projection matrices, allocated [d_model, d_model] and filled by
\* uniform_init in the order W_Q_, W_K_, W_V_, W_O_
MhaWeights ==
    /\ pc = "mha_weights"
    /\ \E seed \in Seeds :
         LET d == args.d_model
             s0 == IF rng.seeded THEN rng.s ELSE seed
             s1 == UniformRng(d, d, s0)
             s2 == UniformRng(d, d, s1)
             s3 == UniformRng(d, d, s2)
         IN /\ attn_' = [attn_ EXCEPT !.W_Q_ = UniformMatrix(d, d, s0, init_range),
                                      !.W_K_ = UniformMatrix(d, d, s1, init_range),
                                      !.W_V_ = UniformMatrix(d, d, s2, init_range),
                                      !.W_O_ = UniformMatrix(d, d, s3, init_range)]
            /\ rng' = [seeded |-> TRUE, s |-> UniformRng(d, d, s3)]
    /\ pc' = "ff_ctor"
    /\ UNCHANGED <<tools, err, args, ff_, ln1_, ln2_, x, mask, mha_locals, block_locals, ref>>

\* FeedForward(d_model, d_ff)
FfCtor ==
    /\ pc = "ff_ctor"
    /\ LET d == args.d_model
           f == args.d_ff
           s0 == rng.s
           s1 == UniformRng(d, f, s0)
       IN /\ ff_' = [d_model_ |-> d, d_ff_ |-> f,
                     W1_ |-> UniformMatrix(d, f, s0, init_range),
                     W2_ |-> UniformMatrix(f, d, s1, init_range),
                     b1_ |-> ConstVec(f, Zero),
                     b2_ |-> ConstVec(d, Zero)]
          /\ rng' = [seeded |-> TRUE, s |-> UniformRng(f, d, s1)]
    /\ pc' = "ln1_ctor"
    /\ UNCHANGED <<tools, err, args, attn_, ln1_, ln2_, x, mask, mha_locals, block_locals, ref>>

\* LayerNorm(d_model, eps = 1e-5): gamma_.setOnes(), beta_.setZero()
NewLayerNorm(d_model) ==
    [d_model_ |-> d_model, eps_ |-> eps_default,
     gamma_ |-> ConstVec(d_model, One), beta_ |-> ConstVec(d_model, Zero)]

Ln1Ctor ==
    /\ pc = "ln1_ctor"
    /\ ln1_' = NewLayerNorm(args.d_model)
    /\ pc' = "ln2_ctor"
    /\ UNCHANGED <<tools, err, args, rng, attn_, ff_, ln2_, x, mask, mha_locals,
                   block_locals, ref>>

Ln2Ctor ==
    /\ pc = "ln2_ctor"
    /\ ln2_' = NewLayerNorm(args.d_model)
    /\ pc' = "idle"
    /\ UNCHANGED <<tools, err, args, rng, attn_, ff_, ln1_, x, mask, mha_locals,
                   block_locals, ref>>

(***************************************************************************)
(* A forward call block(x, mask): TransformerEncoderBlock::operator()      *)
(* calls attn_(x, mask), whose steps come first.                           *)
(***************************************************************************)
Call(xin, msk) ==
    /\ pc = "idle"
    /\ x' = xin /\ mask' = msk
    /\ FreshMhaLocals /\ FreshBlockLocals
    /\ pc' = "project"
    /\ UNCHANGED <<tools, err, args, rng, component, ref>>

\* Q = x * W_Q_, K = x * W_K_, V = x * W_V_; Eigen asserts that the inner
\* dimensions of a product agree
Project ==
    /\ pc = "project"
    /\ \/ /\ x.c = attn_.W_Q_.r
          /\ Q' = MatMul(x, attn_.W_Q_)
          /\ K' = MatMul(x, attn_.W_K_)
          /\ V' = MatMul(x, attn_.W_V_)
          /\ pc' = "split"
          /\ UNCHANGED <<tools, err, args, rng, component, x, mask, Q_heads, K_heads,
                         V_heads, h, attn, head_outputs, concat, block_locals, ref>>
       \/ /\ x.c # attn_.W_Q_.r
          /\ Die("eigen_assert: invalid matrix product")

Split ==
    /\ pc = "split"
    /\ Q_heads' = HeadSlices(Q, attn_.num_heads_, attn_.d_k_)
    /\ K_heads' = HeadSlices(K, attn_.num_heads_, attn_.d_k_)
    /\ V_heads' = HeadSlices(V, attn_.num_heads_, attn_.d_v_)
    /\ h' = 0
    /\ pc' = "attend"
    /\ UNCHANGED <<tools, err, args, rng, component, x, mask, Q, K, V, attn, head_outputs,
                   concat, block_locals, ref>>

\* head_outputs.emplace_back(scaled_dot_product_attention(Q_heads[h], K_heads[h],
\* V_heads[h], mask)): the call computes scores, adds the mask (Eigen asserts
\* that scores and *mask have one shape), takes the softmax into attn and
\* returns attn * V
AttendHead ==
    /\ pc = "attend"
    /\ h < attn_.num_heads_
    /\ LET scores == Scores(Q_heads[h + 1], K_heads[h + 1])
       IN \/ /\ MaskFits(scores, mask)
             /\ attn' = Append(attn, Softmax(MaskedScores(scores, mask)))
             /\ head_outputs' = Append(head_outputs, MatMul(attn'[h + 1], V_heads[h + 1]))
             /\ h' = h + 1
             /\ UNCHANGED <<tools, pc, err, args, rng, component, x, mask, Q, K, V, Q_heads,
                            K_heads, V_heads, concat, block_locals, ref>>
          \/ /\ ~MaskFits(scores, mask)
             /\ Die("eigen_assert: sizes of scores and mask differ")

Concat ==
    /\ pc = "attend"
    /\ h >= attn_.num_heads_
    /\ concat' = ConcatHeads(head_outputs, x.r, attn_.d_model_, attn_.d_k_)
    /\ pc' = "out_proj"
    /\ UNCHANGED <<tools, err, args, rng, component, x, mask, Q, K, V, Q_heads, K_heads,
                   V_heads, h, attn, head_outputs, block_locals, ref>>

\* OutProject returning the last head's output in place of the projection
OutProject_LastHead ==
    /\ pc = "out_proj"
    /\ attn_out' = IF head_outputs = << >> THEN MatMul(concat, attn_.W_O_)
                   ELSE head_outputs[Len(head_outputs)]
    /\ pc' = "ln1"
    /\ UNCHANGED <<tools, err, args, rng, component, x, mask, mha_locals, x1, ff_out,
                   output, ref>>

\* return concat * W_O_, received by the block as attn_out
OutProject ==
    /\ pc = "out_proj"
    /\ attn_out' = MatMul(concat, attn_.W_O_)
    /\ pc' = "ln1"
    /\ UNCHANGED <<tools, err, args, rng, component, x, mask, mha_locals, x1, ff_out,
                   output, ref>>

\* x1 = ln1_(x + attn_out)
Ln1 ==
    /\ pc = "ln1"
    /\ x1' = LayerNormApply(ln1_, MatAdd(x, attn_out))
    /\ pc' = "ff"
    /\ UNCHANGED <<tools, err, args, rng, component, x, mask, mha_locals, attn_out, ff_out,
                   output, ref>>

\* Ff applying the ReLU to W1_ in place as well
Ff_ClampsWeights ==
    /\ pc = "ff"
    /\ ff_out' = FeedForwardApply(ff_, x1)
    /\ ff_' = [ff_ EXCEPT !.W1_ = MatReLU(@)]
    /\ pc' = "ln2"
    /\ UNCHANGED <<tools, err, args, rng, attn_, ln1_, ln2_, x, mask, mha_locals, attn_out,
                   x1, output, ref>>

\* Ff reading the block's input x in place of x1
Ff_ReadsInput ==
    /\ pc = "ff"
    /\ ff_out' = FeedForwardApply(ff_, x)
    /\ pc' = "ln2"
    /\ UNCHANGED <<tools, err, args, rng, component, x, mask, mha_locals, attn_out, x1,
                   output, ref>>

\* ff_out = ff_(x1)
Ff ==
    /\ pc = "ff"
    /\ ff_out' = FeedForwardApply(ff_, x1)
    /\ pc' = "ln2"
    /\ UNCHANGED <<tools, err, args, rng, component, x, mask, mha_locals, attn_out, x1,
                   output, ref>>

\* Ln2 doubling its scale parameter on every call
Ln2_RescalesGamma ==
    /\ pc = "ln2"
    /\ output' = LayerNormApply(ln2_, MatAdd(x1, ff_out))
    /\ ln2_' = [ln2_ EXCEPT !.gamma_ = [j \in DOMAIN @ |-> FAdd(@[j], @[j])]]
    /\ pc' = "returned"
    /\ UNCHANGED <<tools, err, args, rng, attn_, ff_, ln1_, x, mask, mha_locals, attn_out,
                   x1, ff_out, ref>>

\* return ln2_(x1 + ff_out)
Ln2 ==
    /\ pc = "ln2"
    /\ output' = LayerNormApply(ln2_, MatAdd(x1, ff_out))
    /\ pc' = "returned"
    /\ UNCHANGED <<tools, err, args, rng, component, x, mask, mha_locals, attn_out, x1,
                   ff_out, ref>>

\* the caller has the output; the call's frame is gone
Return ==
    /\ pc = "returned"
    /\ pc' = "idle"
    /\ x' = Empty /\ mask' = NoMask
    /\ FreshMhaLocals /\ FreshBlockLocals
    /\ UNCHANGED <<tools, err, args, rng, component, ref>>

\* as Return, the caller keeping the call's input, mask and results
Remember ==
    /\ pc = "returned"
    /\ pc' = "idle"
    /\ ref' = [ref EXCEPT !.set = TRUE, !.x = x, !.mask = mask,
                          !.attn_out = attn_out, !.output = output]
    /\ x' = Empty /\ mask' = NoMask
    /\ FreshMhaLocals /\ FreshBlockLocals
    /\ UNCHANGED <<tools, err, args, rng, component>>

\* a call whose input and mask have the shapes the block expects
CallValid(xin, msk) ==
    /\ xin.c = attn_.d_model_
    /\ msk.present => (msk.m.r = xin.r /\ msk.m.c = xin.r)
    /\ Call(xin, msk)

Next ==
    \/ \E d_model \in 0..MaxDim, num_heads \in 0..MaxDim, d_ff \in {0, MaxDff} :
          Construct(d_model, num_heads, d_ff)
    \/ MhaInitList
    \/ MhaAssert
    \/ MhaWeights
    \/ FfCtor
    \/ Ln1Ctor
    \/ Ln2Ctor
    \/ \E xin \in Inputs, msk \in Masks : Call(xin, msk)
    \/ Project
    \/ Split
    \/ AttendHead
    \/ Concat
    \/ OutProject
    \/ Ln1
    \/ Ff
    \/ Ln2
    \/ Return

Spec == Init /\ [][Next]_vars

\* the block under repeated well-shaped calls, the caller remembering one of them
NextRepeat ==
    \/ \E d_model \in 0..MaxDim, num_heads \in 0..MaxDim, d_ff \in {0, MaxDff} :
          Construct(d_model, num_heads, d_ff)
    \/ MhaInitList
    \/ MhaAssert
    \/ MhaWeights
    \/ FfCtor
    \/ Ln1Ctor
    \/ Ln2Ctor
    \/ \E xin \in Inputs, msk \in Masks : CallValid(xin, msk)
    \/ Project
    \/ Split
    \/ AttendHead
    \/ Concat
    \/ OutProject
    \/ Ln1
    \/ Ff
    \/ Ln2
    \/ Return
    \/ Remember

SpecRepeat == Init /\ [][NextRepeat]_vars

(***************************************************************************)
(* Two blocks built in one process with the same constructor arguments.    *)
(* The engine of uniform_init is a function-local static: the second       *)
(* construction draws from the state the first one left.                   *)
(***************************************************************************)
Rebuild ==
    /\ pc = "idle"
    /\ ref.built = << >>
    /\ ref' = [ref EXCEPT !.built = component]
    /\ attn_' = NoAttn /\ ff_' = NoFf /\ ln1_' = NoLn /\ ln2_' = NoLn
    /\ pc' = "mha_init"
    /\ UNCHANGED <<tools, err, args, rng, x, mask, mha_locals, block_locals>>

NextRebuild ==
    \/ \E d_model \in 0..MaxDim, num_heads \in 0..MaxDim, d_ff \in {0, MaxDff} :
          Construct(d_model, num_heads, d_ff)
    \/ MhaInitList
    \/ MhaAssert
    \/ MhaWeights
    \/ FfCtor
    \/ Ln1Ctor
    \/ Ln2Ctor
    \/ Rebuild

SpecRebuild == Init /\ [][NextRebuild]_vars

(***************************************************************************)
(* The attention loop with its iterations taken in any order: the body of  *)
(* the loop, one head at a time, whichever head is still to be attended.   *)
(* head_outputs and attn are sized num_heads_ beforehand, an entry of a    *)
(* head not yet attended being Empty.                                      *)
(***************************************************************************)
\* the outputs so far, one slot for every head
Slots(outs) ==
    IF outs = << >> THEN Tup([m \in 1..attn_.num_heads_ |-> Empty]) ELSE outs

\* AttendAnyHead putting its result in the next free slot, not in slot n
AttendAnyHead_NextFreeSlot(n) ==
    /\ pc = "attend"
    /\ h < attn_.num_heads_
    /\ n \in 1..attn_.num_heads_
    /\ LET scores == Scores(Q_heads[n], K_heads[n])
       IN /\ MaskFits(scores, mask)
          /\ attn' = [Slots(attn) EXCEPT ![h + 1] = Softmax(MaskedScores(scores, mask))]
          /\ head_outputs' =
                [Slots(head_outputs) EXCEPT ![h + 1] = MatMul(attn'[h + 1], V_heads[n])]
          /\ h' = h + 1
          /\ UNCHANGED <<tools, pc, err, args, rng, component, x, mask, Q, K, V, Q_heads,
                         K_heads, V_heads, concat, block_locals, ref>>

\* the body of the loop for head n (from 1), any head not yet attended
AttendAnyHead(n) ==
    /\ pc = "attend"
    /\ n \in 1..attn_.num_heads_
    /\ Slots(head_outputs)[n] = Empty
    /\ LET scores == Scores(Q_heads[n], K_heads[n])
       IN \/ /\ MaskFits(scores, mask)
             /\ attn' = [Slots(attn) EXCEPT ![n] = Softmax(MaskedScores(scores, mask))]
             /\ head_outputs' =
                   [Slots(head_outputs) EXCEPT ![n] = MatMul(attn'[n], V_heads[n])]
             /\ h' = h + 1
             /\ UNCHANGED <<tools, pc, err, args, rng, component, x, mask, Q, K, V, Q_heads,
                            K_heads, V_heads, concat, block_locals, ref>>
          \/ /\ ~MaskFits(scores, mask)
             /\ Die("eigen_assert: sizes of scores and mask differ")

NextAnyOrder ==
    \/ \E d_model \in 0..MaxDim, num_heads \in 0..MaxDim, d_ff \in {0, MaxDff} :
          Construct(d_model, num_heads, d_ff)
    \/ MhaInitList
    \/ MhaAssert
    \/ MhaWeights
    \/ FfCtor
    \/ Ln1Ctor
    \/ Ln2Ctor
    \/ \E xin \in Inputs, msk \in Masks : Call(xin, msk)
    \/ Project
    \/ Split
    \/ \E n \in 1..MaxDim : AttendAnyHead(n)
    \/ Concat
    \/ OutProject
    \/ Ln1
    \/ Ff
    \/ Ln2
    \/ Return

SpecAnyOrder == Init /\ [][NextAnyOrder]_vars

(***************************************************************************)
(* FeedForward on its own: an instance with any parameter values, called   *)
(* with inputs of d_model columns.                                         *)
(***************************************************************************)
ParamPatterns == {0, 1, 2}

\* an r x c parameter matrix: all zero for p = 0, else entries over -1, 0, 1
ParamMatrix(r, c, p) ==
    [r |-> r, c |-> c,
     a |-> Tup([i \in 1..r |-> Tup([j \in 1..c |->
              IF p = 0 THEN Zero ELSE Fin((((i * p + j) % 3) - 1) * Scale)])])]

\* a parameter vector of length n: all zero for q = 0, else entries over -1, 0, 1
ParamVec(n, q) ==
    [j \in 1..n |-> IF q = 0 THEN Zero ELSE Fin((((j + q) % 3) - 1) * Scale)]

FfInstances ==
    {[d_model_ |-> d, d_ff_ |-> f,
      W1_ |-> ParamMatrix(d, f, p1), W2_ |-> ParamMatrix(f, d, p2),
      b1_ |-> ParamVec(f, q1), b2_ |-> ParamVec(d, q2)] :
        d \in 0..MaxDim, f \in 0..MaxDff,
        p1 \in ParamPatterns, p2 \in ParamPatterns,
        q1 \in ParamPatterns, q2 \in ParamPatterns}

InitFeedForward ==
    /\ pc = "ff_idle" /\ err = "" /\ args = NoArgs
    /\ rng = [seeded |-> FALSE, s |-> 0]
    /\ attn_ = NoAttn /\ ff_ \in FfInstances /\ ln1_ = NoLn /\ ln2_ = NoLn
    /\ x = Empty /\ mask = NoMask
    /\ Q = Empty /\ K = Empty /\ V = Empty
    /\ Q_heads = << >> /\ K_heads = << >> /\ V_heads = << >>
    /\ h = 0 /\ attn = << >> /\ head_outputs = << >> /\ concat = Empty
    /\ attn_out = Empty /\ x1 = Empty /\ ff_out = Empty /\ output = Empty
    /\ ref = NoRef
    /\ cli = NoCli /\ cs = NoCs

\* ff(xin): the argument is bound
FfCall(xin) ==
    /\ pc = "ff_idle"
    /\ xin.c = ff_.d_model_
    /\ x1' = xin
    /\ pc' = "ff_call"
    /\ UNCHANGED <<tools, err, args, rng, component, x, mask, mha_locals, attn_out, ff_out,
                   output, ref>>

\* the body of FeedForward::operator()
FfForward ==
    /\ pc = "ff_call"
    /\ ff_out' = FeedForwardApply(ff_, x1)
    /\ pc' = "ff_done"
    /\ UNCHANGED <<tools, err, args, rng, component, x, mask, mha_locals, attn_out, x1,
                   output, ref>>

\* the caller has the result
FfDone ==
    /\ pc = "ff_done"
    /\ pc' = "ff_idle"
    /\ x1' = Empty /\ ff_out' = Empty
    /\ UNCHANGED <<tools, err, args, rng, component, x, mask, mha_locals, attn_out,
                   output, ref>>

NextFeedForward ==
    \/ \E xin \in Inputs : FfCall(xin)
    \/ FfForward
    \/ FfDone

SpecFeedForward == InitFeedForward /\ [][NextFeedForward]_vars

(***************************************************************************)
(* util::scaled_dot_product_attention on its own: called with any Q, K, V  *)
(* of fitting shapes (Q.cols() = K.cols(), K.rows() = V.rows()) and no     *)
(* mask or a mask of the shape of the scores.                              *)
(***************************************************************************)
InitAttention ==
    /\ pc = "sdpa_idle" /\ err = "" /\ args = NoArgs
    /\ rng = [seeded |-> FALSE, s |-> 0]
    /\ attn_ = NoAttn /\ ff_ = NoFf /\ ln1_ = NoLn /\ ln2_ = NoLn
    /\ x = Empty /\ mask = NoMask
    /\ Q = Empty /\ K = Empty /\ V = Empty
    /\ Q_heads = << >> /\ K_heads = << >> /\ V_heads = << >>
    /\ h = 0 /\ attn = << >> /\ head_outputs = << >> /\ concat = Empty
    /\ attn_out = Empty /\ x1 = Empty /\ ff_out = Empty /\ output = Empty
    /\ ref = NoRef
    /\ cli = NoCli /\ cs = NoCs

\* scaled_dot_product_attention(Qh, Kh, Vh, msk): the arguments are bound
SdpaCall(Qh, Kh, Vh, msk) ==
    /\ pc = "sdpa_idle"
    /\ Qh.c = Kh.c /\ Kh.r = Vh.r
    /\ msk.present => (msk.m.r = Qh.r /\ msk.m.c = Kh.r)
    /\ Q_heads' = <<Qh>> /\ K_heads' = <<Kh>> /\ V_heads' = <<Vh>>
    /\ mask' = msk
    /\ pc' = "sdpa_call"
    /\ UNCHANGED <<tools, err, args, rng, component, x, Q, K, V, h, attn, head_outputs,
                   concat, block_locals, ref>>

\* the body: scores, mask, softmax into attn, attn * V
SdpaForward ==
    /\ pc = "sdpa_call"
    /\ attn' = <<AttnWeights(Q_heads[1], K_heads[1], mask)>>
    /\ head_outputs' =
          <<scaled_dot_product_attention(Q_heads[1], K_heads[1], V_heads[1], mask)>>
    /\ pc' = "sdpa_done"
    /\ UNCHANGED <<tools, err, args, rng, component, x, mask, Q, K, V, Q_heads, K_heads,
                   V_heads, h, concat, block_locals, ref>>

\* the caller has the result
SdpaDone ==
    /\ pc = "sdpa_done"
    /\ pc' = "sdpa_idle"
    /\ mask' = NoMask
    /\ FreshMhaLocals
    /\ UNCHANGED <<tools, err, args, rng, component, x, block_locals, ref>>

NextAttention ==
    \/ \E Qh \in Inputs, Kh \in Inputs, Vh \in Inputs, msk \in Masks :
          SdpaCall(Qh, Kh, Vh, msk)
    \/ SdpaForward
    \/ SdpaDone

SpecAttention == InitAttention /\ [][NextAttention]_vars

(***************************************************************************)
(* LayerNorm on its own: an instance as its constructor leaves it, called  *)
(* with inputs of several magnitudes, rows of equal entries among them.    *)
(***************************************************************************)
LnMagnitudes == {Scale \div 10, Scale \div 2, Scale, 2 * Scale}

\* an r x c input with entries over -m, 0, m units in a pattern set by p;
\* p = 2 makes every entry of the first row m
LnInput(r, c, p, m) ==
    [r |-> r, c |-> c,
     a |-> Tup([i \in 1..r |-> Tup([j \in 1..c |->
              IF p = 2 /\ i = 1 THEN Fin(m) ELSE Fin((((i * p + j) % 3) - 1) * m)])])]

LnInputs ==
    {LnInput(r, c, p, m) :
        r \in 1..MaxSeqLen, c \in 0..MaxDim, p \in ParamPatterns, m \in LnMagnitudes}

InitLayerNorm ==
    /\ pc = "ln_idle" /\ err = "" /\ args = NoArgs
    /\ rng = [seeded |-> FALSE, s |-> 0]
    /\ attn_ = NoAttn /\ ff_ = NoFf /\ ln2_ = NoLn
    /\ ln1_ \in {NewLayerNorm(d) : d \in 0..MaxDim}
    /\ x = Empty /\ mask = NoMask
    /\ Q = Empty /\ K = Empty /\ V = Empty
    /\ Q_heads = << >> /\ K_heads = << >> /\ V_heads = << >>
    /\ h = 0 /\ attn = << >> /\ head_outputs = << >> /\ concat = Empty
    /\ attn_out = Empty /\ x1 = Empty /\ ff_out = Empty /\ output = Empty
    /\ ref = NoRef
    /\ cli = NoCli /\ cs = NoCs

\* ln(xin): the argument is bound
LnCall(xin) ==
    /\ pc = "ln_idle"
    /\ x' = xin
    /\ pc' = "ln_call"
    /\ UNCHANGED <<tools, err, args, rng, component, mask, mha_locals, block_locals, ref>>

\* the body of LayerNorm::operator(); Eigen asserts that norm and gamma_
\* have as many columns
LnForward ==
    /\ pc = "ln_call"
    /\ \/ /\ x.c = ln1_.d_model_
          /\ output' = LayerNormApply(ln1_, x)
          /\ pc' = "ln_done"
          /\ UNCHANGED <<tools, err, args, rng, component, x, mask, mha_locals, attn_out,
                         x1, ff_out, ref>>
       \/ /\ x.c # ln1_.d_model_
          /\ Die("eigen_assert: sizes of norm and gamma differ")

\* the caller has the result
LnDone ==
    /\ pc = "ln_done"
    /\ pc' = "ln_idle"
    /\ x' = Empty /\ output' = Empty
    /\ UNCHANGED <<tools, err, args, rng, component, mask, mha_locals, attn_out, x1,
                   ff_out, ref>>

NextLayerNorm ==
    \/ \E xin \in LnInputs : LnCall(xin)
    \/ LnForward
    \/ LnDone

SpecLayerNorm == InitLayerNorm /\ [][NextLayerNorm]_vars

(***************************************************************************)
(* The inspect program, src/practice/json-parser/main.cpp.  A command-line *)
(* argument is one of a few representative strings; what the code reads    *)
(* off a string (its first character, a prefix, its digits, its            *)
(* extension) is tabulated for them.                                       *)
(***************************************************************************)
MaxArgs == 3

Tokens ==
    {"-h", "-p", "--preview=3", "--preview=x", "--bogus", "-", "3",
     "18446744073709551616", "", "data.csv", "data.jsonl", "notes.txt"}

RECURSIVE ArgLists(_)
ArgLists(n) ==
    IF n = 0 THEN {<< >>}
    ELSE ArgLists(n - 1) \cup
         {Append(l, t) : l \in {m \in ArgLists(n - 1) : Len(m) = n - 1}, t \in Tokens}

\* a[0] == '-' for a non-empty a
StartsWithDash(a) ==
    a \in {"-h", "--help", "-p", "--preview", "--preview=3", "--preview=x", "--bogus", "-"}

\* a.rfind("--preview=", 0) == 0, and the rest of such an a
HasPreviewPrefix(a) == a \in {"--preview=3", "--preview=x"}
PreviewValue(a) == IF a = "--preview=3" THEN "3" ELSE "x"

\* std::from_chars on the whole of s: the strings it accepts as a uint64
NumberValue(s) == IF s = "3" THEN 3 ELSE 0
IsU64(s) == s \in {"3", "0"}

\* Status {code, message}
Ok == [code |-> 0, message |-> ""]
Status(c, m) == [code |-> c, message |-> m]

parse_u64(s) ==
    IF s = "" THEN [st |-> Status(2, "Invalid number (empty)."), v |-> 0]
    ELSE IF ~IsU64(s)
         THEN [st |-> Status(2, "Invalid number. Must be a non-negative integer."),
               v |-> 0]
         ELSE [st |-> Ok, v |-> NumberValue(s)]

\* p.extension().string()
Extension(p) ==
    IF p = "data.csv" THEN ".csv"
    ELSE IF p = "data.jsonl" THEN ".jsonl"
    ELSE IF p = "notes.txt" THEN ".txt"
    ELSE ""

has_allowed_extension(p) == Extension(p) \in {".jsonl", ".csv"}

\* what the path names in the file system: nothing, a directory, a regular
\* file that cannot be opened, one whose reading fails, one that reads well
FileStates == {"missing", "directory", "unopenable", "unreadable", "ok"}

validate_input(p, file) ==
    IF p = "" THEN Status(2, "No path provided.")
    ELSE IF p = "-" THEN Ok
    ELSE IF ~has_allowed_extension(p) THEN Status(3, "File must be .jsonl or .csv.")
    ELSE IF file = "missing" THEN Status(4, "File does not exist.")
    ELSE IF file = "directory" THEN Status(5, "Path is not a regular file.")
    ELSE Ok

\* scan_file and scan_stream; the standard input reads well or fails
scan_file(p, file) ==
    IF p # "-" /\ file = "unopenable" THEN Status(6, "Failed to open file for reading.")
    ELSE IF file = "unreadable" THEN Status(7, "Read error while scanning input.")
    ELSE Ok

\* ParsedArgs{}
NoParsedArgs == [help |-> FALSE, path |-> "", preview_lines |-> 5]

\* the program started with the arguments argv[1..]
CliStart(argv) ==
    [argv |-> argv, i |-> 1, positionals |-> 0, saw_positional_preview |-> FALSE,
     out |-> NoParsedArgs, ast |-> Ok, file |-> "untouched", exit |-> -1]

block_vars == <<err, args, rng, component, x, mask, mha_locals, block_locals, ref>>

InitInspect ==
    /\ pc = "cli_parse_args" /\ err = "" /\ args = NoArgs
    /\ rng = [seeded |-> FALSE, s |-> 0]
    /\ attn_ = NoAttn /\ ff_ = NoFf /\ ln1_ = NoLn /\ ln2_ = NoLn
    /\ x = Empty /\ mask = NoMask
    /\ Q = Empty /\ K = Empty /\ V = Empty
    /\ Q_heads = << >> /\ K_heads = << >> /\ V_heads = << >>
    /\ h = 0 /\ attn = << >> /\ head_outputs = << >> /\ concat = Empty
    /\ attn_out = Empty /\ x1 = Empty /\ ff_out = Empty /\ output = Empty
    /\ ref = NoRef
    /\ cli \in {CliStart(argv) : argv \in ArgLists(MaxArgs)} /\ cs = NoCs

\* parse_args returns st
ParseReturn(st) ==
    /\ cli' = [cli EXCEPT !.ast = st]
    /\ pc' = "cli_parsed"

InvalidPreview == Status(2, "Invalid preview_lines. Must be a non-negative integer.")
TooMany == Status(2, "Too many arguments. Run --help.")

\* one iteration of the loop of parse_args, on argv[i]
ParseArg ==
    /\ pc = "cli_parse_args"
    /\ cli.i <= Len(cli.argv)
    /\ LET a == cli.argv[cli.i]
       IN IF a \in {"-h", "--help"}
          THEN /\ cli' = [cli EXCEPT !.out.help = TRUE, !.ast = Ok]
               /\ pc' = "cli_parsed"
          ELSE IF a \in {"-p", "--preview"}
          THEN IF cli.i + 1 > Len(cli.argv)
               THEN ParseReturn(Status(2, "Missing value for --preview. Run --help."))
               ELSE LET r == parse_u64(cli.argv[cli.i + 1])
                    IN IF r.st.code # 0
                       THEN ParseReturn(InvalidPreview)
                       ELSE /\ cli' = [cli EXCEPT !.out.preview_lines = r.v,
                                                  !.i = cli.i + 2]
                            /\ pc' = pc
          ELSE IF HasPreviewPrefix(a)
          THEN LET r == parse_u64(PreviewValue(a))
               IN IF r.st.code # 0
                  THEN ParseReturn(InvalidPreview)
                  ELSE /\ cli' = [cli EXCEPT !.out.preview_lines = r.v,
                                             !.i = cli.i + 1]
                       /\ pc' = pc
          ELSE IF a # "" /\ StartsWithDash(a)
          THEN ParseReturn(Status(2, "Unknown option. Run --help."))
          ELSE IF cli.positionals + 1 = 1
          THEN /\ cli' = [cli EXCEPT !.positionals = 1, !.out.path = a,
                                     !.i = cli.i + 1]
               /\ pc' = pc
          ELSE IF cli.positionals + 1 = 2
          THEN IF cli.saw_positional_preview
               THEN ParseReturn(TooMany)
               ELSE LET r == parse_u64(a)
                    IN IF r.st.code # 0
                       THEN ParseReturn(InvalidPreview)
                       ELSE /\ cli' = [cli EXCEPT !.positionals = 2,
                                                  !.out.preview_lines = r.v,
                                                  !.saw_positional_preview = TRUE,
                                                  !.i = cli.i + 1]
                            /\ pc' = pc
          ELSE ParseReturn(TooMany)
    /\ UNCHANGED <<block_vars, cs>>

\* after the loop of parse_args
ParseEnd ==
    /\ pc = "cli_parse_args"
    /\ cli.i > Len(cli.argv)
    /\ IF cli.out.path = ""
       THEN ParseReturn(Status(2, "Missing input path. Run --help."))
       ELSE ParseReturn(Ok)
    /\ UNCHANGED <<block_vars, cs>>

\* main leaves with the code c
Exit(c) ==
    /\ cli' = [cli EXCEPT !.exit = c]
    /\ pc' = "cli_exit"

\* main after parse_args: the error, or the help, or on to the file
MainParsed ==
    /\ pc = "cli_parsed"
    /\ IF cli.ast.code # 0 THEN Exit(cli.ast.code)
       ELSE IF cli.out.help THEN Exit(0)
       ELSE cli' = cli /\ pc' = "cli_validate"
    /\ UNCHANGED <<block_vars, cs>>

\* vst = validate_input(args.path), the path naming what it names
MainValidate ==
    /\ pc = "cli_validate"
    /\ \E file \in FileStates :
          LET vst == validate_input(cli.out.path, file)
          IN IF vst.code # 0
             THEN /\ cli' = [cli EXCEPT !.file = file, !.exit = vst.code]
                  /\ pc' = "cli_exit"
             ELSE /\ cli' = [cli EXCEPT !.file = file]
                  /\ pc' = "cli_scan"
    /\ UNCHANGED <<block_vars, cs>>

\* sst = scan_file(args.path, args.preview_lines, r), then the report
MainScan ==
    /\ pc = "cli_scan"
    /\ Exit(scan_file(cli.out.path, cli.file).code)
    /\ UNCHANGED <<block_vars, cs>>

NextInspect ==
    \/ ParseArg
    \/ ParseEnd
    \/ MainParsed
    \/ MainValidate
    \/ MainScan

SpecInspect == InitInspect /\ [][NextInspect]_vars

(***************************************************************************)
(* corpus_stats: run() over an input path.  The directory is the sequence  *)
(* of entries its iterator yields; the recursive and the flat loop of run  *)
(* have the same body.  An entry is a directory (not a regular file), a    *)
(* regular file the extension filter rejects, a regular file that opens, a *)
(* regular file that does not, or the place where the iterator reports an  *)
(* error.  The message of a failure names the file by its position.        *)
(***************************************************************************)
MaxEntries == 6
MaxMessages == 5

EntryKinds == {"directory", "other_ext", "good", "unopenable", "iter_error"}
InputKinds == {"missing", "other_ext", "good", "unopenable", "special", "directory"}
Directories == UNION {[1..n -> EntryKinds] : n \in 0..MaxEntries}

CsOk == Status(0, << >>)
OpenFailure(p) == Status(10, <<"Failed to open: ", p>>)

\* Totals{}
NoTotals == [files |-> 0, errors |-> 0, error_messages |-> << >>]

\* scan_one_file on a file that opens: ++t.files
Scanned(totals) == [totals EXCEPT !.files = @ + 1]

\* record_error with every message kept
record_error_KeepsAll(totals, s) ==
    [totals EXCEPT !.errors = @ + 1,
                   !.error_messages = Append(@, s.message)]

record_error(totals, s) ==
    [totals EXCEPT !.errors = @ + 1,
                   !.error_messages = IF Len(@) < MaxMessages
                                      THEN Append(@, s.message)
                                      ELSE @]

CsStart(input, coe, entries) ==
    [opt |-> [input |-> input, continue_on_error |-> coe],
     entries |-> entries, it |-> 0, totals |-> NoTotals, ret |-> CsOk]

InitCorpusStats ==
    /\ pc = "cs_run" /\ err = "" /\ args = NoArgs
    /\ rng = [seeded |-> FALSE, s |-> 0]
    /\ attn_ = NoAttn /\ ff_ = NoFf /\ ln1_ = NoLn /\ ln2_ = NoLn
    /\ x = Empty /\ mask = NoMask
    /\ Q = Empty /\ K = Empty /\ V = Empty
    /\ Q_heads = << >> /\ K_heads = << >> /\ V_heads = << >>
    /\ h = 0 /\ attn = << >> /\ head_outputs = << >> /\ concat = Empty
    /\ attn_out = Empty /\ x1 = Empty /\ ff_out = Empty /\ output = Empty
    /\ ref = NoRef
    /\ cli = NoCli
    /\ \E coe \in BOOLEAN :
          \/ \E entries \in Directories : cs = CsStart("directory", coe, entries)
          \/ \E input \in InputKinds \ {"directory"} : cs = CsStart(input, coe, << >>)

\* run returns s
CsReturn(s, totals) ==
    /\ cs' = [cs EXCEPT !.ret = s, !.totals = totals]
    /\ pc' = "cs_done"

\* run before its loops: the input path is missing, a file, special, a directory
CsRun ==
    /\ pc = "cs_run"
    /\ LET input == cs.opt.input
       IN IF input = "missing"
          THEN CsReturn(Status(20, <<"Path does not exist: ">>), cs.totals)
          ELSE IF input = "other_ext" THEN CsReturn(CsOk, cs.totals)
          ELSE IF input = "good" THEN CsReturn(CsOk, Scanned(cs.totals))
          ELSE IF input = "unopenable" THEN CsReturn(OpenFailure(0), cs.totals)
          ELSE IF input = "special"
          THEN CsReturn(Status(21, <<"Path is neither a file nor a directory: ">>),
                        cs.totals)
          ELSE /\ cs' = [cs EXCEPT !.it = 1]
               /\ pc' = "cs_loop"
    /\ UNCHANGED <<block_vars, cli>>

\* one pass of the loop body on the entry the iterator stands on; where the
\* iterator reports an error it is either the end iterator, and the loop is
\* left, or it is not, and run returns 22
CsStep ==
    /\ pc = "cs_loop"
    /\ cs.it <= Len(cs.entries)
    /\ LET e == cs.entries[cs.it]
       IN IF e = "iter_error"
          THEN \E at_end \in BOOLEAN :
                  IF at_end THEN CsReturn(CsOk, cs.totals)
                  ELSE CsReturn(Status(22, <<"Directory iteration error: ">>),
                                cs.totals)
          ELSE IF e \in {"directory", "other_ext"}
          THEN /\ cs' = [cs EXCEPT !.it = @ + 1]
               /\ pc' = pc
          ELSE IF e = "good"
          THEN /\ cs' = [cs EXCEPT !.totals = Scanned(@), !.it = @ + 1]
               /\ pc' = pc
          ELSE IF ~cs.opt.continue_on_error
          THEN CsReturn(OpenFailure(cs.it), cs.totals)
          ELSE /\ cs' = [cs EXCEPT !.totals = record_error(@, OpenFailure(cs.it)),
                                   !.it = @ + 1]
               /\ pc' = pc
    /\ UNCHANGED <<block_vars, cli>>

\* it == end: return {0, ""}
CsEnd ==
    /\ pc = "cs_loop"
    /\ cs.it > Len(cs.entries)
    /\ CsReturn(CsOk, cs.totals)
    /\ UNCHANGED <<block_vars, cli>>

NextCorpusStats ==
    \/ CsRun
    \/ CsStep
    \/ CsEnd

SpecCorpusStats == InitCorpusStats /\ [][NextCorpusStats]_vars

(***************************************************************************)
(* corpus_stats: scan_one_file line by line, file after file of the        *)
(* directory loop of run.  A file is the number of lines getline yields    *)
(* from it, or Unopenable; the line j of the file f is <<f, j>>.           *)
(***************************************************************************)
MaxFiles == 3
MaxLines == 3
MaxPreview == 4

Unopenable == -1
FileLists == UNION {[1..n -> {Unopenable} \cup 0..MaxLines] : n \in 0..MaxFiles}

InitScan ==
    /\ pc = "scan_open" /\ err = "" /\ args = NoArgs
    /\ rng = [seeded |-> FALSE, s |-> 0]
    /\ attn_ = NoAttn /\ ff_ = NoFf /\ ln1_ = NoLn /\ ln2_ = NoLn
    /\ x = Empty /\ mask = NoMask
    /\ Q = Empty /\ K = Empty /\ V = Empty
    /\ Q_heads = << >> /\ K_heads = << >> /\ V_heads = << >>
    /\ h = 0 /\ attn = << >> /\ head_outputs = << >> /\ concat = Empty
    /\ attn_out = Empty /\ x1 = Empty /\ ff_out = Empty /\ output = Empty
    /\ ref = NoRef
    /\ cli = NoCli
    /\ \E files \in FileLists, k \in 0..MaxPreview, coe \in BOOLEAN :
          cs = [opt |-> [preview_lines |-> k, continue_on_error |-> coe],
                files |-> files, f |-> 1, j |-> 1, local_lines |-> 0,
                totals |-> [files |-> 0, lines |-> 0, errors |-> 0, preview |-> << >>],
                ret |-> CsOk]

\* std::ifstream in(p) on the next file of the loop: it opens, or the
\* failure is returned or recorded
ScanOpen ==
    /\ pc = "scan_open"
    /\ cs.f <= Len(cs.files)
    /\ IF cs.files[cs.f] # Unopenable
       THEN /\ cs' = [cs EXCEPT !.j = 1, !.local_lines = 0]
            /\ pc' = "scan_read"
       ELSE IF ~cs.opt.continue_on_error
       THEN /\ cs' = [cs EXCEPT !.ret = OpenFailure(cs.f)]
            /\ pc' = "scan_done"
       ELSE /\ cs' = [cs EXCEPT !.totals.errors = @ + 1, !.f = @ + 1]
            /\ pc' = pc
    /\ UNCHANGED <<block_vars, cli>>

\* one pass of the getline loop with every line pushed on the preview
ScanGetline_PushesAll ==
    /\ pc = "scan_read"
    /\ cs.j <= cs.files[cs.f]
    /\ cs' = [cs EXCEPT !.local_lines = @ + 1,
                        !.totals.preview = Append(@, <<cs.f, cs.j>>),
                        !.j = @ + 1]
    /\ pc' = pc
    /\ UNCHANGED <<block_vars, cli>>

\* one pass of the getline loop
ScanGetline ==
    /\ pc = "scan_read"
    /\ cs.j <= cs.files[cs.f]
    /\ cs' = [cs EXCEPT !.local_lines = @ + 1,
                        !.totals.preview =
                            IF cs.opt.preview_lines > 0 /\ Len(@) < cs.opt.preview_lines
                            THEN Append(@, <<cs.f, cs.j>>)
                            ELSE @,
                        !.j = @ + 1]
    /\ pc' = pc
    /\ UNCHANGED <<block_vars, cli>>

\* getline fails: t.lines += local_lines, ++t.files, return {0, ""}
ScanClose ==
    /\ pc = "scan_read"
    /\ cs.j > cs.files[cs.f]
    /\ cs' = [cs EXCEPT !.totals.lines = @ + cs.local_lines,
                        !.totals.files = @ + 1,
                        !.f = @ + 1]
    /\ pc' = "scan_open"
    /\ UNCHANGED <<block_vars, cli>>

\* the loop of run is over
ScanEnd ==
    /\ pc = "scan_open"
    /\ cs.f > Len(cs.files)
    /\ cs' = [cs EXCEPT !.ret = CsOk]
    /\ pc' = "scan_done"
    /\ UNCHANGED <<block_vars, cli>>

NextScan ==
    \/ ScanOpen
    \/ ScanGetline
    \/ ScanClose
    \/ ScanEnd

SpecScan == InitScan /\ [][NextScan]_vars

(***************************************************************************)
(* corpus_stats: parse_usize, one character of the string at a time.  A    *)
(* character is its code; size_t has Width bits.                           *)
(***************************************************************************)
Width == 6
MaxLen == 3

SizeMax == (2 ^ Width) - 1
\* '+' '-' '/' '0'..'9' ':' 'a'
Chars == {43, 45, 47, 58, 97} \cup 48..57
Strings == UNION {[1..n -> Chars] : n \in 0..MaxLen}

\* the guard without the digit
OverflowGuard_IgnoresDigit(value, digit) == value > SizeMax \div 10

\* value > (static_cast<std::size_t>(-1) - digit) / 10
OverflowGuard(value, digit) == value > (SizeMax - digit) \div 10

InitParse ==
    /\ pc = "pu_start" /\ err = "" /\ args = NoArgs
    /\ rng = [seeded |-> FALSE, s |-> 0]
    /\ attn_ = NoAttn /\ ff_ = NoFf /\ ln1_ = NoLn /\ ln2_ = NoLn
    /\ x = Empty /\ mask = NoMask
    /\ Q = Empty /\ K = Empty /\ V = Empty
    /\ Q_heads = << >> /\ K_heads = << >> /\ V_heads = << >>
    /\ h = 0 /\ attn = << >> /\ head_outputs = << >> /\ concat = Empty
    /\ attn_out = Empty /\ x1 = Empty /\ ff_out = Empty /\ output = Empty
    /\ ref = NoRef
    /\ cs = NoCs
    /\ \E s \in Strings : cli = [s |-> s, i |-> 1, value |-> 0, has_value |-> FALSE]

\* if (s.empty()) return std::nullopt; std::size_t value = 0
PuStart ==
    /\ pc = "pu_start"
    /\ IF cli.s = << >>
       THEN pc' = "pu_done" /\ cli' = [cli EXCEPT !.has_value = FALSE]
       ELSE pc' = "pu_loop" /\ cli' = [cli EXCEPT !.value = 0, !.i = 1]
    /\ UNCHANGED <<block_vars, cs>>

\* one pass of the loop on the character s[i]
PuStep ==
    /\ pc = "pu_loop"
    /\ cli.i <= Len(cli.s)
    /\ LET c == cli.s[cli.i]
           digit == c - 48
       IN IF c < 48 \/ c > 57
          THEN pc' = "pu_done" /\ cli' = [cli EXCEPT !.has_value = FALSE]
          ELSE IF OverflowGuard(cli.value, digit)
          THEN pc' = "pu_done" /\ cli' = [cli EXCEPT !.has_value = FALSE]
          ELSE /\ pc' = pc
               /\ cli' = [cli EXCEPT !.value = ((@ * 10) + digit) % (2 ^ Width),
                                     !.i = @ + 1]
    /\ UNCHANGED <<block_vars, cs>>

\* return value
PuEnd ==
    /\ pc = "pu_loop"
    /\ cli.i > Len(cli.s)
    /\ pc' = "pu_done"
    /\ cli' = [cli EXCEPT !.has_value = TRUE]
    /\ UNCHANGED <<block_vars, cs>>

NextParse ==
    \/ PuStart
    \/ PuStep
    \/ PuEnd

SpecParse == InitParse /\ [][NextParse]_vars

(***************************************************************************)
(* Properties.                                                             *)
(***************************************************************************)
AssertMessage == "assert: d_model must be divisible by num_heads"

CtorPcs == {"start", "mha_init", "mha_assert", "mha_weights", "ff_ctor",
            "ln1_ctor", "ln2_ctor"}

\* a forward call is in progress, or has died
CallActive == x.r > 0

\* the block is built with positive dimensions: at least one head of positive
\* width and a feed-forward layer of positive width
ProperDims == attn_.num_heads_ > 0 /\ attn_.d_k_ > 0 /\ ff_.d_ff_ > 0

ZeroMask(n) == SomeMask(MaskMatrix(n, n, "zero"))

\* C1: whenever MultiHeadAttention's forward call has returned, with or
\* without a mask, its result has the rows of the input x and d_model columns.
C1_AttentionKeepsShape ==
    pc \in {"ln1", "ff", "ln2", "returned"} =>
        /\ attn_out.r = x.r
        /\ attn_out.c = attn_.d_model_
        /\ attn_out.c = x.c

C1_Witness ==
    /\ pc = "ln1" /\ mask.present
    /\ x.r = 2 /\ attn_.d_model_ = 2 /\ attn_.num_heads_ = 2
    /\ attn_out.r = 2 /\ attn_out.c = 2

\* row i of the mask has at least one entry that is not +infinity
HasUnmaskedKey(i) == \E j \in 1..mask.m.c : mask.m.a[i][j] # PInf

\* C2: in every head attended under a [seq_len, seq_len] mask, on each query
\* row that keeps at least one unmasked key, the attention weight of every
\* position whose mask entry is +infinity is 0, and no weight of an unmasked
\* position is NaN.
C2_MaskedWeightIsZero ==
    (mask.present /\ ProperDims /\ mask.m.r = x.r /\ mask.m.c = x.r) =>
        \A n \in 1..Len(attn) : \A i \in 1..attn[n].r : \A j \in 1..attn[n].c :
            HasUnmaskedKey(i) =>
                /\ mask.m.a[i][j] = PInf => attn[n].a[i][j] = Zero
                /\ mask.m.a[i][j] # PInf => ~IsNaN(attn[n].a[i][j])

\* a row of the mask with every entry +infinity, the mask having the shape
\* [seq_len, seq_len] of the call
FullyMaskedRow ==
    /\ mask.present /\ mask.m.r = x.r /\ mask.m.c = x.r
    /\ \E i \in 1..mask.m.r : \A j \in 1..mask.m.c : mask.m.a[i][j] = PInf

\* C3: a call whose mask leaves some query row without an unmasked key never
\* gets an attention output: it produces no head output and goes no further
\* than the attention loop, where it fails.
C3_FullyMaskedRowFails ==
    (FullyMaskedRow /\ ProperDims /\ x.c = attn_.d_model_) =>
        /\ head_outputs = << >>
        /\ pc \in {"project", "split", "attend", "dead"}

\* the input or the mask of the call does not have the expected shape
BadShape ==
    \/ x.c # attn_.d_model_
    \/ mask.present /\ (mask.m.r # x.r \/ mask.m.c # x.r)

\* C4: a call with an ill-shaped input or mask is rejected before anything
\* is computed: no projection exists and the call is at its start or dead.
C4_BadShapeRejectedFirst ==
    (CallActive /\ ProperDims /\ BadShape) =>
        /\ Q = Empty /\ K = Empty /\ V = Empty
        /\ pc \in {"project", "dead"}

\* C5: constructing with positive d_model and num_heads, d_model not a
\* multiple of num_heads, dies on the constructor's assertion: beyond the
\* initializers and the assertion itself the only state is the failed one,
\* so no such instance is ever built or called.
C5_IndivisibleAborts ==
    (args.d_model > 0 /\ args.num_heads > 0
        /\ args.d_model % args.num_heads # 0) =>
        \/ pc \in {"mha_init", "mha_assert"}
        \/ pc = "dead" /\ err = AssertMessage

C5_Witness ==
    /\ pc = "dead" /\ err = AssertMessage
    /\ args.d_model = 1 /\ args.num_heads = 2

\* C6: constructing with a non-positive d_model, num_heads or d_ff is
\* refused before the parameters are used: the constructor is at its entry
\* or has failed with a configuration error, the quotient d_model / num_heads
\* is never taken and no component is built.
C6_NonPositiveRefused ==
    (pc # "start"
        /\ (args.d_model <= 0 \/ args.num_heads <= 0 \/ args.d_ff <= 0)) =>
        \/ pc = "mha_init"
        \/ pc = "dead" /\ err \notin {"SIGFPE", AssertMessage}

C8_ParametersFrozen ==
    [][pc \notin CtorPcs => component' = component]_vars

C8_Witness ==
    /\ pc = "returned"
    /\ attn_.W_Q_.r = 2 /\ attn_.W_Q_.c = 2
    /\ ff_.W1_.r = 2 /\ ff_.W1_.c = 1
    /\ \E i \in 1..2 : FLess(ff_.W1_.a[i][1], Zero)

CallShaped(M) == M.r = x.r /\ M.c = attn_.d_model_ /\ SameShape(M, x)

ZeroFf ==
    /\ \A i \in 1..ff_.d_model_ : \A k \in 1..ff_.d_ff_ :
          ff_.W1_.a[i][k] = Zero /\ ff_.W2_.a[k][i] = Zero
    /\ \A k \in 1..ff_.d_ff_ : ff_.b1_[k] = Zero
    /\ \A j \in 1..ff_.d_model_ : ff_.b2_[j] = Zero

SoftmaxArg == MaskedScores(Scores(Q_heads[1], K_heads[1]), mask)

FiniteMatrix(M) == \A i \in 1..M.r : \A j \in 1..M.c : IsFin(M.a[i][j])

\* C14: whenever the scores entering the softmax are all finite, every
\* attention weight is a number between 0 and 1 and every row of weights
\* sums to 1, up to one rounding of the format for each entry of the row.
C14_SoftmaxRowsSumToOne ==
    (pc = "sdpa_done" /\ FiniteMatrix(SoftmaxArg)) =>
        \A i \in 1..attn[1].r :
            /\ \A j \in 1..attn[1].c :
                  /\ IsFin(attn[1].a[i][j])
                  /\ attn[1].a[i][j].v >= 0 /\ attn[1].a[i][j].v <= Scale
            /\ IsFin(FSum(attn[1].a[i], attn[1].c))
            /\ Abs(FSum(attn[1].a[i], attn[1].c).v - Scale) <= attn[1].c

\* the rounding allowed on a moment of an output row, and the claim's 1e-3
LnTol == Scale \div 500
VarTol == (Scale \div 1000) + LnTol

\* row i of the input of the call has all entries equal
ConstantRow(i) == \A j \in 1..x.c : x.a[i][j] = x.a[i][1]

\* the variance of row i of the input is at least 1000 eps
AmpleVariance(i) == RowVar(x)[i].v >= 1000 * ln1_.eps_

MeanNearZero(i) == Abs(RowMean(output)[i].v) <= LnTol

VarianceNearOne(i) == Abs(RowVar(output)[i].v - Scale) <= VarTol

C16_RebuildGivesSameWeights ==
    (pc = "idle" /\ ref.built # << >> /\ ProperDims) => component = ref.built

\* the columns of head n (from 1), as 1-based column numbers
HeadColumns(n) == ((n - 1) * attn_.d_k_ + 1)..(n * attn_.d_k_)

\* slice number n of the slices S is columns HeadColumns(n) of M, row for row
IsSliceOf(S, M, n) ==
    /\ S[n].r = M.r /\ S[n].c = attn_.d_k_
    /\ \A i \in 1..M.r : \A j \in 1..attn_.d_k_ :
          S[n].a[i][j] = M.a[i][(n - 1) * attn_.d_k_ + j]

\* C18: once the projections are split, head h of each of Q, K and V is
\* exactly columns [h * d_k, (h + 1) * d_k) of the projection; every one of
\* the d_model columns lies in the slice of exactly one head; and once the
\* heads are concatenated, those same columns of concat hold the output of
\* head h and of no other.
C18_SlicesPartitionColumns ==
    /\ pc \in {"attend", "out_proj", "ln1", "ff", "ln2", "returned"} =>
          /\ Len(Q_heads) = attn_.num_heads_
          /\ Len(K_heads) = attn_.num_heads_
          /\ Len(V_heads) = attn_.num_heads_
          /\ attn_.d_v_ = attn_.d_k_
          /\ \A n \in 1..attn_.num_heads_ :
                IsSliceOf(Q_heads, Q, n) /\ IsSliceOf(K_heads, K, n)
                   /\ IsSliceOf(V_heads, V, n)
          /\ \A c \in 1..attn_.d_model_ :
                Cardinality({n \in 1..attn_.num_heads_ : c \in HeadColumns(n)}) = 1
    /\ pc \in {"out_proj", "ln1", "ff", "ln2", "returned"} =>
          /\ Len(head_outputs) = attn_.num_heads_
          /\ concat.r = x.r /\ concat.c = attn_.d_model_
          /\ \A n \in 1..attn_.num_heads_ : \A i \in 1..x.r : \A j \in 1..attn_.d_k_ :
                concat.a[i][(n - 1) * attn_.d_k_ + j] = head_outputs[n].a[i][j]

C18_Witness ==
    /\ pc = "out_proj" /\ x.r = 2
    /\ attn_.d_model_ = 2 /\ attn_.num_heads_ = 2 /\ attn_.d_k_ = 1
    /\ head_outputs[1] # head_outputs[2]
    /\ V_heads[1] # V_heads[2]
    /\ concat.a[1][2] = head_outputs[2].a[1][1]

\* what the loop in head order leaves in head_outputs[n]
SequentialHead(n) ==
    scaled_dot_product_attention(Block(Q, (n - 1) * attn_.d_k_, attn_.d_k_),
                                 Block(K, (n - 1) * attn_.d_k_, attn_.d_k_),
                                 Block(V, (n - 1) * attn_.d_v_, attn_.d_v_), mask)

RECURSIVE Outcome(_, _, _, _)
Outcome(argv, i, npos, path) ==
    IF i > Len(argv) THEN (IF path = "" THEN "usage" ELSE path)
    ELSE LET a == argv[i]
         IN IF a \in {"-h", "--help"} THEN "help"
            ELSE IF a \in {"-p", "--preview"}
            THEN IF i + 1 <= Len(argv) /\ IsU64(argv[i + 1])
                 THEN Outcome(argv, i + 2, npos, path)
                 ELSE "usage"
            ELSE IF HasPreviewPrefix(a)
            THEN IF IsU64(PreviewValue(a))
                 THEN Outcome(argv, i + 1, npos, path)
                 ELSE "usage"
            ELSE IF a # "-" /\ StartsWithDash(a) THEN "usage"
            ELSE IF npos = 0 THEN Outcome(argv, i + 1, 1, a)
            ELSE IF npos = 1 /\ IsU64(a) THEN Outcome(argv, i + 1, 2, path)
            ELSE "usage"

\* The exit codes of the table of print_help for an outcome, the checks made
\* in the table's order; the standard input reads well or fails.
DocumentedCodes(o, file) ==
    IF o = "usage" THEN {2}
    ELSE IF o = "help" THEN {0}
    ELSE IF o = "-" THEN {0, 7}
    ELSE IF Extension(o) \notin {".jsonl", ".csv"} THEN {3}
    ELSE IF file = "missing" THEN {4}
    ELSE IF file = "directory" THEN {5}
    ELSE IF file = "unopenable" THEN {6}
    ELSE IF file = "unreadable" THEN {7}
    ELSE {0}

\* an argument of the list is "-", the name of the standard input
NamesStdin == \E i \in 1..Len(cli.argv) : cli.argv[i] = "-"

\* C17: the inspect program exits with the documented code of its outcome:
\* 2 for an argument error, 3 for a wrong extension, 4 for a missing file,
\* 5 for what is not a regular file, 6 for a failed open, 7 for a read error,
\* 0 for a scan or the help, the first failing check deciding.
C17_DocumentedExitCode ==
    pc = "cli_exit" =>
        cli.exit \in DocumentedCodes(Outcome(cli.argv, 1, 0, ""), cli.file)

\* the same for every argument list without the name of the standard input
ExitCodesApartFromStdin ==
    (pc = "cli_exit" /\ ~NamesStdin) =>
        cli.exit \in DocumentedCodes(Outcome(cli.argv, 1, 0, ""), cli.file)

\* the iterator reports an error somewhere in the directory
IterationFails(entries) == \E i \in 1..Len(entries) : entries[i] = "iter_error"

\* the number of entries the iterator yields before it reports an error
Reached(entries) ==
    IF IterationFails(entries)
    THEN (CHOOSE i \in 1..Len(entries) :
             /\ entries[i] = "iter_error"
             /\ \A j \in 1..(i - 1) : entries[j] # "iter_error") - 1
    ELSE Len(entries)

\* the eligible files among the first n entries, and those that fail to open
EligibleIn(entries, n) == {i \in 1..n : entries[i] \in {"good", "unopenable"}}
FailedIn(entries, n) == {i \in 1..n : entries[i] = "unopenable"}
FirstFailure(entries, n) ==
    CHOOSE i \in FailedIn(entries, n) : \A j \in FailedIn(entries, n) : i <= j

\* the messages of the first MaxMessages failures among the first n entries,
\* in visit order
FirstMessages(entries, n) ==
    LET failed == SelectSeq([i \in 1..n |-> i], LAMBDA i : entries[i] = "unopenable")
    IN [j \in 1..(IF Len(failed) < MaxMessages THEN Len(failed) ELSE MaxMessages) |->
           OpenFailure(failed[j]).message]

\* run over a directory has returned, having gone through the first n entries
RunAccountsFor(n) ==
    LET entries == cs.entries
        totals == cs.totals
    IN IF cs.opt.continue_on_error
       THEN /\ \A i \in EligibleIn(entries, n) : i < cs.it
            /\ totals.files + totals.errors = Cardinality(EligibleIn(entries, n))
            /\ totals.errors = Cardinality(FailedIn(entries, n))
            /\ totals.error_messages = FirstMessages(entries, n)
       ELSE IF FailedIn(entries, n) # {}
       THEN /\ cs.ret = OpenFailure(FirstFailure(entries, n))
            /\ cs.it = FirstFailure(entries, n)
            /\ totals.errors = 0
            /\ totals.files =
                  Cardinality(EligibleIn(entries, FirstFailure(entries, n) - 1))
       ELSE /\ \A i \in EligibleIn(entries, n) : i < cs.it
            /\ totals.errors = 0
            /\ totals.files = Cardinality(EligibleIn(entries, n))

RanOverDirectory == pc = "cs_done" /\ cs.opt.input = "directory"

RECURSIVE LinesOf(_, _)
LinesOf(files, n) ==
    IF n = 0 THEN << >>
    ELSE LinesOf(files, n - 1) \o
         (IF files[n] = Unopenable THEN << >> ELSE [j \in 1..files[n] |-> <<n, j>>])

\* the lines getline has yielded so far
LinesRead ==
    LinesOf(cs.files, cs.f - 1) \o
    (IF pc = "scan_read" THEN [j \in 1..(cs.j - 1) |-> <<cs.f, j>>] ELSE << >>)

Scanning == pc \in {"scan_open", "scan_read", "scan_done"}

\* C21: at every step of a scan the preview holds at most preview_lines
\* lines, and it is the first min(preview_lines, lines read) lines in the
\* order the files are visited; between files and at the end totals.lines
\* is the number of lines of the files opened, previewed or not.
C21_PreviewBounded ==
    Scanning =>
        /\ Len(cs.totals.preview) <= cs.opt.preview_lines
        /\ cs.totals.preview =
              SubSeq(LinesRead, 1,
                     IF cs.opt.preview_lines < Len(LinesRead)
                     THEN cs.opt.preview_lines ELSE Len(LinesRead))
        /\ pc # "scan_read" => cs.totals.lines = Len(LinesOf(cs.files, cs.f - 1))

\* a run over several files that read more lines than the preview holds,
\* the preview filled from more than one file
C21_Witness ==
    /\ pc = "scan_done"
    /\ cs.opt.preview_lines > 0
    /\ cs.totals.lines > Len(cs.totals.preview)
    /\ Len(cs.totals.preview) = cs.opt.preview_lines
    /\ cs.totals.preview[1][1] # cs.totals.preview[Len(cs.totals.preview)][1]

\* the first n characters of s are decimal digits
AllDigits(s, n) == \A k \in 1..n : s[k] \in 48..57

\* the decimal value of the first n characters of s
RECURSIVE Decimal(_, _)
Decimal(s, n) == IF n = 0 THEN 0 ELSE (Decimal(s, n - 1) * 10) + (s[n] - 48)

\* s is a non-empty string of digits whose value size_t holds
Parsable(s) == Len(s) > 0 /\ AllDigits(s, Len(s)) /\ Decimal(s, Len(s)) <= SizeMax

\* C22: parse_usize returns a value exactly when its argument is a non-empty
\* string of decimal digits of value at most the maximum size_t, that value
\* is the decimal value, and the accumulator never wraps: in the loop it is
\* the decimal value of the characters read.
C22_ParseUsizeExact ==
    /\ pc = "pu_loop" => cli.value = Decimal(cli.s, cli.i - 1)
    /\ pc = "pu_done" =>
          /\ cli.has_value <=> Parsable(cli.s)
          /\ cli.has_value => cli.value = Decimal(cli.s, Len(cli.s))

\* the maximum itself is parsed
C22_Witness ==
    /\ pc = "pu_done"
    /\ cli.has_value
    /\ cli.value = SizeMax
=============================================================================
